---------------------------- MODULE Spec2Model ----------------------------
(***************************************************************************)
(* The simulation engine of the missile-defence game (src/src/types.ts,    *)
(* constants in src/unnamed/part_000): the world state held in stateRef    *)
(* and the four operations that change it: initGame, nextRound,            *)
(* handleCanvasClick and update (which calls spawnRocket).                 *)
(*                                                                         *)
(* Numbers.  The fractional quantities of the code (progress, speed,       *)
(* interpolated positions, explosion radii) are fixed-point numbers with   *)
(* Scale units to 1, exact for every value the model produces.  start and  *)
(* target of a projectile and the positions of turrets and cities are      *)
(* whole canvas units; pos of a projectile and of an explosion, radius and *)
(* maxRadius are in 1/Scale units.                                         *)
(*                                                                         *)
(* Sequences are 1-based: index i of the model is index i-1 of the code.   *)
(* The id strings of the entities are not modelled (nothing reads them).   *)
(***************************************************************************)
EXTENDS Integers, Sequences, FiniteSets, TLC

VARIABLES
    score,          \* state.score
    status,         \* state.status
    rockets,        \* state.rockets
    missiles,       \* state.missiles
    explosions,     \* state.explosions
    turrets,        \* state.turrets
    cities,         \* state.cities
    round,          \* state.round
    rocketsToSpawn, \* state.rocketsToSpawn
    lastOp,         \* history: the operation that ran last and its input
    prev,           \* history: the world as that operation found it
    frames          \* update calls since the start of the behaviour or initGame

vars == <<score, status, rockets, missiles, explosions, turrets, cities,
          round, rocketsToSpawn, lastOp, prev, frames>>

\* The GameState object of stateRef.current.
World ==
    [score |-> score, status |-> status, rockets |-> rockets,
     missiles |-> missiles, explosions |-> explosions, turrets |-> turrets,
     cities |-> cities, round |-> round, rocketsToSpawn |-> rocketsToSpawn]

-----------------------------------------------------------------------------
(* Constants of the program *)

Scale == 10000

CANVAS_WIDTH == 800
CANVAS_HEIGHT == 600
EXPLOSION_MAX_RADIUS == 40
EXPLOSION_GROWTH_SPEED == 15000
MISSILE_SPEED == 200
ROCKET_SPEED_BASE == 10
ROCKET_SPEED_INC == 2
WIN_SCORE == 1000
TURRET_AMMO == <<10, 20, 10>>
KILL_SCORE == 20
AMMO_BONUS == 5
CITY_HIT_BOX == 10
TURRET_HIT_BOX == 20
BASE_ROCKETS == 3

Pt(px, py) == [x |-> px, y |-> py]

Fix(p) == [x |-> p.x * Scale, y |-> p.y * Scale]

Abs(n) == IF n < 0 THEN -n ELSE n

RemoveAt(s, i) == SubSeq(s, 1, i - 1) \o SubSeq(s, i + 1, Len(s))

InitialTurrets ==
    << [pos |-> Pt(50, CANVAS_HEIGHT - 40), ammo |-> TURRET_AMMO[1],
        maxAmmo |-> TURRET_AMMO[1], destroyed |-> FALSE],
       [pos |-> Pt(CANVAS_WIDTH \div 2, CANVAS_HEIGHT - 40), ammo |-> TURRET_AMMO[2],
        maxAmmo |-> TURRET_AMMO[2], destroyed |-> FALSE],
       [pos |-> Pt(CANVAS_WIDTH - 50, CANVAS_HEIGHT - 40), ammo |-> TURRET_AMMO[3],
        maxAmmo |-> TURRET_AMMO[3], destroyed |-> FALSE] >>

InitialCities ==
    << [pos |-> Pt(150, CANVAS_HEIGHT - 20), destroyed |-> FALSE],
       [pos |-> Pt(250, CANVAS_HEIGHT - 20), destroyed |-> FALSE],
       [pos |-> Pt(350, CANVAS_HEIGHT - 20), destroyed |-> FALSE],
       [pos |-> Pt(450, CANVAS_HEIGHT - 20), destroyed |-> FALSE],
       [pos |-> Pt(550, CANVAS_HEIGHT - 20), destroyed |-> FALSE],
       [pos |-> Pt(650, CANVAS_HEIGHT - 20), destroyed |-> FALSE] >>

-----------------------------------------------------------------------------
(* Pure parts of the operations *)

\* pos = start + (target - start) * progress, in 1/Scale units.
Lerp(start, target, progress) ==
    [x |-> start.x * Scale + (target.x - start.x) * progress,
     y |-> start.y * Scale + (target.y - start.y) * progress]

NewExplosion(p, maxR) ==
    [pos |-> p, radius |-> 0, maxRadius |-> maxR * Scale,
     growing |-> TRUE, finished |-> FALSE]

\* a * a as <<hi, lo>> with a * a = hi * 10^6 + lo, for 0 <= a < 10^6
\* (the products of the distance test do not fit the checker's integers).
Square(a) ==
    LET a1 == a \div 1000
        a0 == a % 1000
        t  == 2 * a1 * a0
    IN  << a1 * a1 + t \div 1000, (t % 1000) * 1000 + a0 * a0 >>

\* Math.sqrt(dx^2 + dy^2) < radius
DistLess(dx, dy, radius) ==
    /\ radius > 0
    /\ Abs(dx) < radius
    /\ Abs(dy) < radius
    /\ LET sx == Square(Abs(dx))
           sy == Square(Abs(dy))
           sr == Square(radius)
           hi == sx[1] + sy[1] - sr[1]
           lo == sx[2] + sy[2] - sr[2]
       IN  IF hi <= -10 THEN TRUE
           ELSE IF hi >= 10 THEN FALSE
           ELSE hi * 1000000 + lo < 0

\* F applied to the value of x: one statement has run before the next one
\* starts (x is evaluated once).
Then(x, F(_)) == CHOOSE y \in {F(v) : v \in {x}} : TRUE

AllTurretsDestroyed(ts) == \A i \in 1..Len(ts) : ts[i].destroyed

-----------------------------------------------------------------------------
(* update, step 1: state.rockets.forEach with splice inside the callback.   *)
(* forEach visits the indices 0..len-1 of the array as it is when each      *)
(* index comes up, len being the length at the start; an index beyond the   *)
(* current end is not visited.                                              *)

\* Mutant: the progress advances, the position is not recomputed.
MoveProjectile_StalePos(p) ==
    [p EXCEPT !.progress = p.progress + p.speed]

MoveProjectile(p) ==
    [p EXCEPT !.progress = p.progress + p.speed,
              !.pos = Lerp(p.start, p.target, p.progress + p.speed)]

\* Mutant: || for &&, one axis within the box is enough.
HitCities_EitherAxis(cs, target) ==
    [i \in 1..Len(cs) |->
        IF /\ ~cs[i].destroyed
           /\ \/ Abs(cs[i].pos.x - target.x) < CITY_HIT_BOX
              \/ Abs(cs[i].pos.y - target.y) < CITY_HIT_BOX
        THEN [cs[i] EXCEPT !.destroyed = TRUE]
        ELSE cs[i]]

HitCities(cs, target) ==
    [i \in 1..Len(cs) |->
        IF /\ ~cs[i].destroyed
           /\ Abs(cs[i].pos.x - target.x) < CITY_HIT_BOX
           /\ Abs(cs[i].pos.y - target.y) < CITY_HIT_BOX
        THEN [cs[i] EXCEPT !.destroyed = TRUE]
        ELSE cs[i]]

HitTurrets(ts, target) ==
    [i \in 1..Len(ts) |->
        IF /\ ~ts[i].destroyed
           /\ Abs(ts[i].pos.x - target.x) < TURRET_HIT_BOX
           /\ Abs(ts[i].pos.y - target.y) < TURRET_HIT_BOX
        THEN [ts[i] EXCEPT !.destroyed = TRUE]
        ELSE ts[i]]

\* Mutant: a rocket arrives only when its progress exceeds 1.
RocketCallback_StrictArrival(w, k) ==
    LET r == MoveProjectile(w.rockets[k])
    IN  IF r.progress > Scale
        THEN [w EXCEPT
                !.explosions = Append(@, NewExplosion(Fix(r.target), EXPLOSION_MAX_RADIUS)),
                !.cities = HitCities(@, r.target),
                !.turrets = HitTurrets(@, r.target),
                !.rockets = RemoveAt(@, k)]
        ELSE [w EXCEPT !.rockets[k] = r]

RocketCallback(w, k) ==
    LET r == MoveProjectile(w.rockets[k])
    IN  IF r.progress >= Scale
        THEN [w EXCEPT
                !.explosions = Append(@, NewExplosion(Fix(r.target), EXPLOSION_MAX_RADIUS)),
                !.cities = HitCities(@, r.target),
                !.turrets = HitTurrets(@, r.target),
                !.rockets = RemoveAt(@, k)]
        ELSE [w EXCEPT !.rockets[k] = r]

RECURSIVE RocketsForEach(_, _, _)
RocketsForEach(w, k, len) ==
    IF k > len \/ k > Len(w.rockets) THEN w
    ELSE Then(RocketCallback(w, k), LAMBDA v : RocketsForEach(v, k + 1, len))

UpdateRockets(w) == RocketsForEach(w, 1, Len(w.rockets))

(* update, step 2: state.missiles.forEach *)

MissileCallback(w, k) ==
    LET m == MoveProjectile(w.missiles[k])
    IN  IF m.progress >= Scale
        THEN [w EXCEPT
                !.explosions = Append(@, NewExplosion(Fix(m.target), EXPLOSION_MAX_RADIUS)),
                !.missiles = RemoveAt(@, k)]
        ELSE [w EXCEPT !.missiles[k] = m]

RECURSIVE MissilesForEach(_, _, _)
MissilesForEach(w, k, len) ==
    IF k > len \/ k > Len(w.missiles) THEN w
    ELSE Then(MissileCallback(w, k), LAMBDA v : MissilesForEach(v, k + 1, len))

UpdateMissiles(w) == MissilesForEach(w, 1, Len(w.missiles))

(* update, step 3: state.explosions.forEach, with state.rockets.forEach     *)
(* inside for the collisions.                                               *)

\* Mutant: the shrinking radius is clamped at 0 and finished asks for < 0.
StepExplosion_NeverFinished(e) ==
    IF e.growing
    THEN LET r == e.radius + EXPLOSION_GROWTH_SPEED
         IN  [e EXCEPT !.radius = r, !.growing = ~(r >= e.maxRadius)]
    ELSE LET r == IF e.radius > EXPLOSION_GROWTH_SPEED
                  THEN e.radius - EXPLOSION_GROWTH_SPEED ELSE 0
         IN  [e EXCEPT !.radius = r, !.finished = (e.finished \/ r < 0)]

StepExplosion(e) ==
    IF e.growing
    THEN LET r == e.radius + EXPLOSION_GROWTH_SPEED
         IN  [e EXCEPT !.radius = r, !.growing = ~(r >= e.maxRadius)]
    ELSE LET r == e.radius - EXPLOSION_GROWTH_SPEED
         IN  [e EXCEPT !.radius = r, !.finished = (e.finished \/ r <= 0)]

CollisionCallback(w, e, j) ==
    LET r == w.rockets[j]
    IN  IF DistLess(r.pos.x - e.pos.x, r.pos.y - e.pos.y, e.radius)
        THEN [w EXCEPT
                !.score = @ + KILL_SCORE,
                !.explosions = Append(@, NewExplosion(r.pos, EXPLOSION_MAX_RADIUS \div 2)),
                !.rockets = RemoveAt(@, j)]
        ELSE w

RECURSIVE CollisionsForEach(_, _, _, _)
CollisionsForEach(w, e, j, len) ==
    IF j > len \/ j > Len(w.rockets) THEN w
    ELSE Then(CollisionCallback(w, e, j), LAMBDA v : CollisionsForEach(v, e, j + 1, len))

ExplosionCallback(w, k) ==
    LET e == StepExplosion(w.explosions[k])
    IN  IF e.finished
        THEN [w EXCEPT !.explosions = RemoveAt(@, k)]
        ELSE CollisionsForEach([w EXCEPT !.explosions[k] = e], e, 1, Len(w.rockets))

RECURSIVE ExplosionsForEach(_, _, _)
ExplosionsForEach(w, k, len) ==
    IF k > len \/ k > Len(w.explosions) THEN w
    ELSE Then(ExplosionCallback(w, k), LAMBDA v : ExplosionsForEach(v, k + 1, len))

UpdateExplosions(w) == ExplosionsForEach(w, 1, Len(w.explosions))

(* update, step 4: game over / win / round end.  won tells that update      *)
(* returned at the win check, before the spawn logic.                       *)

\* Mutant: the round ends while explosions are still live.
CheckOutcome_IgnoresExplosions(w) ==
    LET s1 == IF AllTurretsDestroyed(w.turrets) THEN "LOST" ELSE w.status
    IN  IF w.score >= WIN_SCORE
        THEN [w |-> [w EXCEPT !.status = "WON"], won |-> TRUE]
        ELSE IF w.rocketsToSpawn = 0 /\ Len(w.rockets) = 0
             THEN [w |-> [w EXCEPT !.status = "ROUND_END"], won |-> FALSE]
             ELSE [w |-> [w EXCEPT !.status = s1], won |-> FALSE]

\* Mutant: the game is won only above the win score.
CheckOutcome_StrictWin(w) ==
    LET s1 == IF AllTurretsDestroyed(w.turrets) THEN "LOST" ELSE w.status
    IN  IF w.score > WIN_SCORE
        THEN [w |-> [w EXCEPT !.status = "WON"], won |-> TRUE]
        ELSE IF w.rocketsToSpawn = 0 /\ Len(w.rockets) = 0 /\ Len(w.explosions) = 0
             THEN [w |-> [w EXCEPT !.status = "ROUND_END"], won |-> FALSE]
             ELSE [w |-> [w EXCEPT !.status = s1], won |-> FALSE]

\* Mutant: the loss of all turrets is not tested.
CheckOutcome_NoLoss(w) ==
    IF w.score >= WIN_SCORE
    THEN [w |-> [w EXCEPT !.status = "WON"], won |-> TRUE]
    ELSE IF w.rocketsToSpawn = 0 /\ Len(w.rockets) = 0 /\ Len(w.explosions) = 0
         THEN [w |-> [w EXCEPT !.status = "ROUND_END"], won |-> FALSE]
         ELSE [w |-> w, won |-> FALSE]

CheckOutcome(w) ==
    LET s1 == IF AllTurretsDestroyed(w.turrets) THEN "LOST" ELSE w.status
    IN  IF w.score >= WIN_SCORE
        THEN [w |-> [w EXCEPT !.status = "WON"], won |-> TRUE]
        ELSE IF w.rocketsToSpawn = 0 /\ Len(w.rockets) = 0 /\ Len(w.explosions) = 0
             THEN [w |-> [w EXCEPT !.status = "ROUND_END"], won |-> FALSE]
             ELSE [w |-> [w EXCEPT !.status = s1], won |-> FALSE]

(* spawnRocket.  sx is Math.random() * CANVAS_WIDTH, pick the Math.random() *)
(* of the target choice in hundredths, jitter Math.random() * 0.0005.       *)

RocketSpeed(rnd, jitter) == ROCKET_SPEED_BASE + (rnd - 1) * ROCKET_SPEED_INC + jitter

LiveTargets(w) ==
    SelectSeq(w.cities, LAMBDA c : ~c.destroyed) \o
    SelectSeq(w.turrets, LAMBDA t : ~t.destroyed)

\* Mutant: no status test, a rocket is spawned in any status.
SpawnRocket_IgnoresStatus(w, sx, pick, jitter) ==
    IF w.rocketsToSpawn <= 0 THEN w
    ELSE LET w1 == [w EXCEPT !.rocketsToSpawn = @ - 1]
             targets == LiveTargets(w1)
         IN  IF Len(targets) = 0 THEN w1
             ELSE LET start == Pt(sx, 0)
                      target == targets[(pick * Len(targets)) \div 100 + 1].pos
                  IN  [w1 EXCEPT !.rockets = Append(@,
                         [pos |-> Fix(start), start |-> start, target |-> target,
                          progress |-> 0,
                          speed |-> RocketSpeed(w1.round, jitter)])]

SpawnRocket(w, sx, pick, jitter) ==
    IF w.status # "PLAYING" \/ w.rocketsToSpawn <= 0 THEN w
    ELSE LET w1 == [w EXCEPT !.rocketsToSpawn = @ - 1]
             targets == LiveTargets(w1)
         IN  IF Len(targets) = 0 THEN w1
             ELSE LET start == Pt(sx, 0)
                      target == targets[(pick * Len(targets)) \div 100 + 1].pos
                  IN  [w1 EXCEPT !.rockets = Append(@,
                         [pos |-> Fix(start), start |-> start, target |-> target,
                          progress |-> 0,
                          speed |-> RocketSpeed(w1.round, jitter)])]

\* The whole of update on a PLAYING world; trial is the outcome of
\* Math.random() < 0.007 + round * 0.002.
Frame(w, trial, sx, pick, jitter) ==
    LET Rest(o) ==
            IF o.won THEN o.w
            ELSE IF o.w.rocketsToSpawn > 0 /\ trial
                 THEN SpawnRocket(o.w, sx, pick, jitter)
                 ELSE o.w
    IN  Then(Then(Then(Then(Then(w, UpdateRockets), UpdateMissiles),
                       UpdateExplosions), CheckOutcome), Rest)

(* handleCanvasClick: the closest turret with ammo, 0 for the code's -1.    *)

\* Mutant: dist <= minDist, the last of equally near turrets wins.
RECURSIVE BestTurret_LastOnTie(_, _, _, _, _)
BestTurret_LastOnTie(ts, x, i, best, minDist) ==
    IF i > Len(ts) THEN best
    ELSE IF /\ ~ts[i].destroyed
            /\ ts[i].ammo > 0
            /\ (best = 0 \/ Abs(ts[i].pos.x - x) <= minDist)
         THEN BestTurret_LastOnTie(ts, x, i + 1, i, Abs(ts[i].pos.x - x))
         ELSE BestTurret_LastOnTie(ts, x, i + 1, best, minDist)

\* Mutant: a turret without ammo is chosen too.
RECURSIVE BestTurret_IgnoresAmmo(_, _, _, _, _)
BestTurret_IgnoresAmmo(ts, x, i, best, minDist) ==
    IF i > Len(ts) THEN best
    ELSE IF /\ ~ts[i].destroyed
            /\ (best = 0 \/ Abs(ts[i].pos.x - x) < minDist)
         THEN BestTurret_IgnoresAmmo(ts, x, i + 1, i, Abs(ts[i].pos.x - x))
         ELSE BestTurret_IgnoresAmmo(ts, x, i + 1, best, minDist)

RECURSIVE BestTurret(_, _, _, _, _)
BestTurret(ts, x, i, best, minDist) ==
    IF i > Len(ts) THEN best
    ELSE IF /\ ~ts[i].destroyed
            /\ ts[i].ammo > 0
            /\ (best = 0 \/ Abs(ts[i].pos.x - x) < minDist)
         THEN BestTurret(ts, x, i + 1, i, Abs(ts[i].pos.x - x))
         ELSE BestTurret(ts, x, i + 1, best, minDist)

\* Mutant: no status test at the head of handleCanvasClick.
Fire_AnyStatus(w, p) ==
    LET b == BestTurret(w.turrets, p.x, 1, 0, 0)
    IN  IF b = 0 THEN w
        ELSE [w EXCEPT
                !.turrets[b].ammo = @ - 1,
                !.missiles = Append(@,
                    [pos |-> Fix(w.turrets[b].pos), start |-> w.turrets[b].pos,
                     target |-> p, progress |-> 0, speed |-> MISSILE_SPEED,
                     sourceTurretIndex |-> b])]

Fire(w, p) ==
    LET b == BestTurret(w.turrets, p.x, 1, 0, 0)
    IN  IF w.status # "PLAYING" \/ b = 0 THEN w
        ELSE [w EXCEPT
                !.turrets[b].ammo = @ - 1,
                !.missiles = Append(@,
                    [pos |-> Fix(w.turrets[b].pos), start |-> w.turrets[b].pos,
                     target |-> p, progress |-> 0, speed |-> MISSILE_SPEED,
                     sourceTurretIndex |-> b])]

(* nextRound *)

RECURSIVE AmmoBonus(_, _)
AmmoBonus(ts, i) ==
    IF i > Len(ts) THEN 0
    ELSE (IF ts[i].destroyed THEN 0 ELSE ts[i].ammo * AMMO_BONUS) + AmmoBonus(ts, i + 1)

Refill(ts) ==
    [i \in 1..Len(ts) |->
        IF ts[i].destroyed THEN ts[i] ELSE [ts[i] EXCEPT !.ammo = ts[i].maxAmmo]]

\* Mutant: state.score = ammoBonus.
NextRoundOf_AssignsBonus(w) ==
    [w EXCEPT !.score = AmmoBonus(w.turrets, 1),
              !.turrets = Refill(@),
              !.round = @ + 1,
              !.rocketsToSpawn = BASE_ROCKETS + (w.round + 1) * 1,
              !.status = "PLAYING"]

\* Mutant: the turrets are refilled before the bonus is counted.
NextRoundOf_RefillFirst(w) ==
    [w EXCEPT !.score = @ + AmmoBonus(Refill(w.turrets), 1),
              !.turrets = Refill(@),
              !.round = @ + 1,
              !.rocketsToSpawn = BASE_ROCKETS + (w.round + 1) * 1,
              !.status = "PLAYING"]

NextRoundOf(w) ==
    [w EXCEPT !.score = @ + AmmoBonus(w.turrets, 1),
              !.turrets = Refill(@),
              !.round = @ + 1,
              !.rocketsToSpawn = BASE_ROCKETS + (w.round + 1) * 1,
              !.status = "PLAYING"]

\* Mutant: the score of the previous session is kept.
NewGame_KeepsScore ==
    [score |-> score, status |-> "PLAYING", rockets |-> <<>>, missiles |-> <<>>,
     explosions |-> <<>>, turrets |-> InitialTurrets, cities |-> InitialCities,
     round |-> 1, rocketsToSpawn |-> BASE_ROCKETS]

NewGame ==
    [score |-> 0, status |-> "PLAYING", rockets |-> <<>>, missiles |-> <<>>,
     explosions |-> <<>>, turrets |-> InitialTurrets, cities |-> InitialCities,
     round |-> 1, rocketsToSpawn |-> BASE_ROCKETS]

-----------------------------------------------------------------------------
(* Bounds of the exploration and the inputs drawn *)

MaxFrames == 2      \* update calls explored from a starting state
MaxMissiles == 2    \* clicks are explored while fewer missiles are in flight

NoPoint == Pt(-1, -1)

\* Click positions in canvas units: 225 is as far from the turret at 50 as
\* from the one at 400, 400 as far from 50 as from 750.
ClickPoints == {Pt(225, 300), Pt(400, 300), Pt(600, 100)}

SpawnXs == {0, 400}         \* Math.random() * CANVAS_WIDTH
TargetPicks == {0, 99}      \* Math.random() of the target choice, in hundredths
Jitters == {0}              \* Math.random() * 0.0005, in 1/Scale units (below 5)

-----------------------------------------------------------------------------
(* Sessions in progress.  A behaviour starts in the state the component is  *)
(* constructed with, or in one of these worlds, each of which the program   *)
(* reaches from initGame; the entities in them are built by the code's own  *)
(* steps (a rocket k frames old, an explosion n frames old).  A rocket      *)
(* needs some 500 to 1000 frames to fall and a game ten thousand frames to  *)
(* approach the win score, so the frames around the events are explored     *)
(* from these worlds and not from the first frame.  In each of them the     *)
(* rockets of the round are accounted for (round 1 has three: to spawn, in  *)
(* flight, shot down for 20 points, or fallen on what they destroyed), no   *)
(* rocket is inside a blast, the ammunition spent covers the missiles, and  *)
(* a turret stands: status PLAYING is entered by initGame, with three       *)
(* turrets, or by nextRound from ROUND_END.                                 *)

StartWorld ==
    [score |-> 0, status |-> "START", rockets |-> <<>>, missiles |-> <<>>,
     explosions |-> <<>>, turrets |-> <<>>, cities |-> <<>>,
     round |-> 1, rocketsToSpawn |-> BASE_ROCKETS]

\* A rocket spawned at x = sx, k frames old.
RocketAged(sx, target, rnd, k) ==
    [pos |-> Lerp(Pt(sx, 0), target, k * RocketSpeed(rnd, 0)),
     start |-> Pt(sx, 0), target |-> target,
     progress |-> k * RocketSpeed(rnd, 0), speed |-> RocketSpeed(rnd, 0)]

\* A missile fired by turret b, k frames old.
MissileAged(b, target, k) ==
    [pos |-> Lerp(InitialTurrets[b].pos, target, k * MISSILE_SPEED),
     start |-> InitialTurrets[b].pos, target |-> target,
     progress |-> k * MISSILE_SPEED, speed |-> MISSILE_SPEED,
     sourceTurretIndex |-> b]

RECURSIVE ExplosionAged(_, _)
ExplosionAged(e, n) == IF n = 0 THEN e ELSE ExplosionAged(StepExplosion(e), n - 1)

TurretsWith(ammo, destroyed) ==
    [i \in 1..3 |-> [InitialTurrets[i] EXCEPT !.ammo = ammo[i],
                                              !.destroyed = (i \in destroyed)]]

CitiesWith(destroyed) ==
    [i \in 1..6 |-> [InitialCities[i] EXCEPT !.destroyed = (i \in destroyed)]]

T1 == InitialTurrets[1].pos
T2 == InitialTurrets[2].pos
T3 == InitialTurrets[3].pos
C1 == InitialCities[1].pos
C5 == InitialCities[5].pos

Session(sc, rnd, rts, ts, cs, rs, ms, es) ==
    [score |-> sc, status |-> "PLAYING", rockets |-> rs, missiles |-> ms,
     explosions |-> es, turrets |-> ts, cities |-> cs,
     round |-> rnd, rocketsToSpawn |-> rts]

\* Round 1: a missile of turret 2 has exploded at (400, 300); two rockets
\* spawned one frame apart fall towards turret 2 and reach the blast together.
SceneBlast ==
    { Session(0, 1, 1, TurretsWith(<<10, 19, 10>>, {}), CitiesWith({}),
              <<RocketAged(400, T2, 1, 507), RocketAged(400, T2, 1, 506)>>, <<>>,
              <<ExplosionAged(NewExplosion(Fix(Pt(400, 300)), EXPLOSION_MAX_RADIUS), 10)>>) }

\* Round 1: a rocket is one frame from turret 2; the missiles fired so far
\* have burnt out.
SceneTurretHit ==
    { Session(0, 1, 2, TurretsWith(ammo, {}), CitiesWith({}),
              <<RocketAged(400, T2, 1, 999)>>, <<>>, <<>>)
      : ammo \in {<<10, 20, 10>>, <<10, 0, 10>>, <<0, 0, 0>>} }

\* Round 1: two rockets fall on city 1, the second one frame or nine frames
\* behind the first.
SceneCityHit ==
    { Session(0, 1, 1, TurretsWith(<<10, 20, 10>>, {}), CitiesWith({}),
              <<RocketAged(150, C1, 1, 999), RocketAged(150, C1, 1, k)>>, <<>>, <<>>)
      : k \in {998, 990} }

\* Round 1: a missile of turret 2 is one frame from its target, a rocket is
\* on its way to turret 1 or one frame from it.
SceneMissile ==
    { Session(0, 1, 2, TurretsWith(<<10, 19, 10>>, {}), CitiesWith({}),
              <<RocketAged(0, T1, 1, k)>>,
              <<MissileAged(2, Pt(400, 300), 49)>>, <<>>)
      : k \in {100, 999} }

\* Round 1: one rocket was shot down 13 frames ago, in its frame 502, by a
\* blast now 26 frames old; the other two rockets are still to come.
SceneGrowth ==
    { Session(20, 1, 2, TurretsWith(<<10, 19, 10>>, {}), CitiesWith({}), <<>>, <<>>,
              <<ExplosionAged(NewExplosion(Fix(Pt(400, 300)), EXPLOSION_MAX_RADIUS), 26),
                ExplosionAged(NewExplosion(RocketAged(400, T2, 1, 502).pos,
                                           EXPLOSION_MAX_RADIUS \div 2), 13)>>) }

\* Round 1: turret 3 is lost, two rockets were shot down, the last blast is
\* one frame from its end.
SceneRoundEnd ==
    { Session(40, 1, 0, TurretsWith(ammo, {3}), CitiesWith({}), <<>>, <<>>,
              <<ExplosionAged(NewExplosion(Fix(Pt(400, 300)), EXPLOSION_MAX_RADIUS), 53)>>)
      : ammo \in {<<3, 7, 10>>, <<0, 0, 10>>} }

\* Round 6: turrets 1 and 2 and cities 1 to 4 are lost; a rocket is one frame
\* from turret 3, another falls on city 5 into the blast of a missile.
\* (Rounds 1 to 4 without a shot, their rockets on cities 1 to 4: 4 * 200
\* bonus points.  Round 5: its 8 rockets shot down, 160 points, with 36 or 40
\* missiles spent: 20 or 0 bonus points.  Round 6: rockets fell on turrets 1
\* and 2, turret 3 fired twice.)
SceneLastStand ==
    { Session(sc, 6, rts, TurretsWith(<<10, 20, 8>>, {1, 2}), CitiesWith({1, 2, 3, 4}),
              rs, <<>>,
              <<ExplosionAged(NewExplosion(Fix(Pt(550, 300)), EXPLOSION_MAX_RADIUS), 10)>>)
      : sc \in {960, 980}, rts \in {0, 2},
        rs \in { <<RocketAged(750, T3, 6, 499), RocketAged(550, C5, 6, 245)>>,
                 <<RocketAged(550, C5, 6, 245)>>,
                 <<RocketAged(750, T3, 6, 499)>> } }

\* Round 6 as in SceneLastStand, with no rocket left to spawn and two shots
\* left in turret 3, or with one rocket left to spawn and turret 3 empty.
SceneEndgame ==
    { Session(sc, 6, 0, TurretsWith(<<10, 20, 2>>, {1, 2}), CitiesWith({1, 2, 3, 4}),
              rs, <<>>,
              <<ExplosionAged(NewExplosion(Fix(Pt(550, 300)), EXPLOSION_MAX_RADIUS), 10)>>)
      : sc \in {960, 980},
        rs \in { <<RocketAged(750, T3, 6, 499), RocketAged(550, C5, 6, 245)>>,
                 <<RocketAged(550, C5, 6, 245)>>,
                 <<RocketAged(750, T3, 6, 499)>> } }
    \cup
    { Session(sc, 6, 1, TurretsWith(<<10, 20, 0>>, {1, 2}), CitiesWith({1, 2, 3, 4}),
              <<RocketAged(550, C5, 6, 245)>>, <<>>,
              <<ExplosionAged(NewExplosion(Fix(Pt(550, 300)), EXPLOSION_MAX_RADIUS), 10)>>)
      : sc \in {960, 980} }

Sessions ==
    SceneBlast \cup SceneTurretHit \cup SceneCityHit \cup SceneMissile
    \cup SceneGrowth \cup SceneRoundEnd \cup SceneLastStand

-----------------------------------------------------------------------------
(* The state machine *)

SetWorld(w) ==
    /\ score' = w.score
    /\ status' = w.status
    /\ rockets' = w.rockets
    /\ missiles' = w.missiles
    /\ explosions' = w.explosions
    /\ turrets' = w.turrets
    /\ cities' = w.cities
    /\ round' = w.round
    /\ rocketsToSpawn' = w.rocketsToSpawn

Op(name, at, trial) == [op |-> name, at |-> at, trial |-> trial]

Init ==
    \E w \in {StartWorld} \cup Sessions :
        /\ score = w.score
        /\ status = w.status
        /\ rockets = w.rockets
        /\ missiles = w.missiles
        /\ explosions = w.explosions
        /\ turrets = w.turrets
        /\ cities = w.cities
        /\ round = w.round
        /\ rocketsToSpawn = w.rocketsToSpawn
        /\ lastOp = Op("none", NoPoint, FALSE)
        /\ prev = w
        /\ frames = 0

initGame ==
    /\ SetWorld(NewGame)
    /\ lastOp' = Op("initGame", NoPoint, FALSE)
    /\ prev' = World
    /\ frames' = 0

\* The button that calls nextRound is rendered in status ROUND_END only.
nextRound ==
    /\ status = "ROUND_END"
    /\ SetWorld(NextRoundOf(World))
    /\ lastOp' = Op("nextRound", NoPoint, FALSE)
    /\ prev' = World
    /\ UNCHANGED frames

handleCanvasClick ==
    /\ Len(missiles) < MaxMissiles
    /\ \E p \in ClickPoints :
        /\ SetWorld(Fire(World, p))
        /\ lastOp' = Op("click", p, FALSE)
    /\ prev' = World
    /\ UNCHANGED frames

\* Mutant: no status test at the head of update.
update_AnyStatus ==
    /\ frames < MaxFrames
    /\ \E trial \in BOOLEAN, sx \in SpawnXs, pick \in TargetPicks, jitter \in Jitters :
        /\ SetWorld(Frame(World, trial, sx, pick, jitter))
        /\ lastOp' = Op("update", NoPoint, trial)
    /\ prev' = World
    /\ frames' = frames + 1

update ==
    /\ frames < MaxFrames
    /\ \E trial \in BOOLEAN, sx \in SpawnXs, pick \in TargetPicks, jitter \in Jitters :
        /\ SetWorld(IF status = "PLAYING"
                    THEN Frame(World, trial, sx, pick, jitter)
                    ELSE World)
        /\ lastOp' = Op("update", NoPoint, trial)
    /\ prev' = World
    /\ frames' = frames + 1

Next == initGame \/ nextRound \/ handleCanvasClick \/ update

Spec == Init /\ [][Next]_vars

(* One round to its end: the animation loop runs update frame after frame,  *)
(* with clicks in between, and no button is pressed.                        *)

LiveInit ==
    /\ \E w \in SceneEndgame :
        /\ score = w.score /\ status = w.status
        /\ rockets = w.rockets /\ missiles = w.missiles /\ explosions = w.explosions
        /\ turrets = w.turrets /\ cities = w.cities
        /\ round = w.round /\ rocketsToSpawn = w.rocketsToSpawn
        /\ prev = w
    /\ lastOp = Op("none", NoPoint, FALSE)
    /\ frames = 0

\* one frame of the loop, with the spawn trial as given; Math.random is drawn
\* (and recorded) only while rockets are left to spawn
LoopFrame(trial) ==
    /\ \E sx \in SpawnXs, pick \in TargetPicks, jitter \in Jitters :
        \E w \in {IF status = "PLAYING"
                  THEN Frame(World, trial, sx, pick, jitter)
                  ELSE World} :
            SetWorld(w)
    /\ lastOp' = Op("update", NoPoint, trial /\ status = "PLAYING" /\ rocketsToSpawn > 0)
    /\ prev' = World
    /\ UNCHANGED frames

gameLoop == \E trial \in BOOLEAN : LoopFrame(trial)

\* a frame in which the spawn trial succeeds while rockets are left to spawn
SpawnFrame == status = "PLAYING" /\ rocketsToSpawn > 0 /\ LoopFrame(TRUE)

\* a click that fires (one that does not fire leaves the world as it is)
shot == handleCanvasClick /\ missiles' # missiles

LiveNext == gameLoop \/ shot

LiveSpec ==
    /\ LiveInit
    /\ [][LiveNext]_vars
    /\ WF_vars(gameLoop)
    /\ SF_vars(SpawnFrame)

-----------------------------------------------------------------------------
(* The claims.  prev and lastOp make the effect of the last operation a     *)
(* predicate of one state.                                                  *)

\* an update call that started in status PLAYING has just returned
Updated == lastOp.op = "update" /\ prev.status = "PLAYING"

\* a click in status PLAYING has just been handled
Clicked == lastOp.op = "click" /\ prev.status = "PLAYING"

Eligible(ts) == {i \in 1..Len(ts) : ~ts[i].destroyed /\ ts[i].ammo > 0}

\* the eligible turret nearest to x, the lowest index among equals
Nearest(ts, x) ==
    CHOOSE i \in Eligible(ts) :
        \A j \in Eligible(ts) :
            \/ Abs(ts[i].pos.x - x) < Abs(ts[j].pos.x - x)
            \/ (Abs(ts[i].pos.x - x) = Abs(ts[j].pos.x - x) /\ i <= j)

Leftover(t) == IF t.destroyed THEN 0 ELSE t.ammo

\* C1: after an update that started in PLAYING, all turrets destroyed means
\* status LOST whatever the score, and status WON means a turret is left
\* and score >= 1000.
C1_LostBeforeWon ==
    Updated =>
        /\ AllTurretsDestroyed(turrets) => status = "LOST"
        /\ status = "WON" => ~AllTurretsDestroyed(turrets) /\ score >= WIN_SCORE

\* C2: after an update that started in PLAYING, all turrets destroyed and
\* score < 1000 means status LOST (never ROUND_END).
C2_LostBeforeRoundEnd ==
    (Updated /\ AllTurretsDestroyed(turrets) /\ score < WIN_SCORE) => status = "LOST"

C2_Witness ==
    /\ Updated
    /\ ~AllTurretsDestroyed(prev.turrets)
    /\ AllTurretsDestroyed(turrets)
    /\ score < WIN_SCORE
    /\ rocketsToSpawn = 0
    /\ rockets = <<>>
    /\ status = "LOST"

\* C3: an update that started in PLAYING and ends with score >= 1000 and a
\* turret left ends in status WON, and has spawned no rocket.
C3_WonAtOnce ==
    (Updated /\ score >= WIN_SCORE /\ ~AllTurretsDestroyed(turrets)) =>
        /\ status = "WON"
        /\ rocketsToSpawn = prev.rocketsToSpawn
        /\ Len(rockets) <= Len(prev.rockets)
        /\ \A i \in 1..Len(rockets) : \E j \in 1..Len(prev.rockets) :
              /\ rockets[i].start = prev.rockets[j].start
              /\ rockets[i].target = prev.rockets[j].target

C3_Witness ==
    /\ Updated
    /\ lastOp.trial
    /\ prev.rocketsToSpawn > 0
    /\ prev.score < WIN_SCORE
    /\ score = WIN_SCORE
    /\ ~AllTurretsDestroyed(turrets)
    /\ status = "WON"

\* C4: a click in PLAYING with an eligible turret appends exactly one
\* missile, which starts at the nearest eligible turret (lowest index among
\* equally near ones), and takes 1 from the ammo of that turret alone.
C4_FireNearest ==
    (Clicked /\ Eligible(prev.turrets) # {}) =>
        LET b == Nearest(prev.turrets, lastOp.at.x)
            n == Len(prev.missiles)
        IN  /\ Len(missiles) = n + 1
            /\ SubSeq(missiles, 1, n) = prev.missiles
            /\ missiles[n + 1].start = prev.turrets[b].pos
            /\ missiles[n + 1].pos = Fix(prev.turrets[b].pos)
            /\ missiles[n + 1].target = lastOp.at
            /\ missiles[n + 1].progress = 0
            /\ missiles[n + 1].sourceTurretIndex = b
            /\ turrets = [prev.turrets EXCEPT ![b].ammo = @ - 1]

C4_Witness ==
    /\ Clicked
    /\ {1, 2} \subseteq Eligible(prev.turrets)
    /\ Abs(prev.turrets[1].pos.x - lastOp.at.x) = Abs(prev.turrets[2].pos.x - lastOp.at.x)
    /\ missiles[Len(missiles)].start = prev.turrets[1].pos
    /\ turrets[1].ammo = prev.turrets[1].ammo - 1

\* C5: a click with no eligible turret changes nothing in the world.
C5_NoEligibleNoOp ==
    (lastOp.op = "click" /\ Eligible(prev.turrets) = {}) => World = prev

C5_Witness ==
    /\ Clicked
    /\ ~AllTurretsDestroyed(prev.turrets)
    /\ Eligible(prev.turrets) = {}
    /\ rockets # <<>>
    /\ World = prev

\* C6: score is never negative; a click leaves it, an update adds 20 for
\* each rocket shot down and a round transition adds a bonus >= 0.
C6_ScoreMonotone ==
    /\ score >= 0
    /\ lastOp.op = "click" => score = prev.score
    /\ lastOp.op = "update" =>
          \E n \in 0..Len(prev.rockets) : score = prev.score + n * KILL_SCORE
    /\ lastOp.op = "nextRound" => score >= prev.score

C6_Witness ==
    /\ lastOp.op = "nextRound"
    /\ prev.score > 0
    /\ score > prev.score

\* C7: every explosion has 0 <= radius <= maxRadius, in every state.
C7_RadiusWithinMax ==
    \A i \in 1..Len(explosions) :
        0 <= explosions[i].radius /\ explosions[i].radius <= explosions[i].maxRadius

\* C8: after an update no rocket and no missile has progress >= 1.
C8_ArrivedRemoved ==
    lastOp.op = "update" =>
        /\ \A i \in 1..Len(rockets) : rockets[i].progress < Scale
        /\ \A i \in 1..Len(missiles) : missiles[i].progress < Scale

C8_Witness ==
    /\ Updated
    /\ \E i \in 1..Len(prev.rockets) :
          prev.rockets[i].progress + prev.rockets[i].speed >= Scale
    /\ \E i \in 1..Len(prev.missiles) :
          prev.missiles[i].progress + prev.missiles[i].speed >= Scale
    /\ rockets # <<>>
    /\ missiles # <<>>

\* p is q one or more frames later, or q itself
Later(p, q) ==
    /\ p.start = q.start
    /\ p.target = q.target
    /\ p.speed = q.speed
    /\ p.progress >= q.progress

\* C9: every rocket and missile is at the interpolation of start and target
\* at its progress, in every state, and an update lowers no progress.
C9_Interpolated ==
    /\ \A i \in 1..Len(rockets) :
          rockets[i].pos = Lerp(rockets[i].start, rockets[i].target, rockets[i].progress)
    /\ \A i \in 1..Len(missiles) :
          missiles[i].pos = Lerp(missiles[i].start, missiles[i].target, missiles[i].progress)
    /\ lastOp.op = "update" =>
          /\ \A i \in 1..Len(missiles) :
                \E j \in 1..Len(prev.missiles) : Later(missiles[i], prev.missiles[j])
          /\ \A i \in 1..Len(rockets) :
                \/ \E j \in 1..Len(prev.rockets) : Later(rockets[i], prev.rockets[j])
                \/ /\ i = Len(rockets)
                   /\ rocketsToSpawn = prev.rocketsToSpawn - 1
                   /\ rockets[i].progress = 0

C9_Witness ==
    /\ Updated
    /\ Len(rockets) = Len(prev.rockets)
    /\ Len(missiles) = Len(prev.missiles)
    /\ \E i \in 1..Len(rockets) :
          /\ rockets[i].progress = prev.rockets[i].progress + rockets[i].speed
          /\ rockets[i].pos # prev.rockets[i].pos
    /\ \E i \in 1..Len(missiles) :
          /\ missiles[i].progress = prev.missiles[i].progress + MISSILE_SPEED
          /\ missiles[i].pos # prev.missiles[i].pos

\* C10: a round transition in ROUND_END adds 5 times the ammo left in the
\* turrets not destroyed to the score, refills those turrets, leaves the
\* destroyed ones and the cities, adds 1 to round and sets status PLAYING.
C10_RoundTransition ==
    (lastOp.op = "nextRound" /\ prev.status = "ROUND_END") =>
        /\ score = prev.score + AMMO_BONUS * (Leftover(prev.turrets[1])
                                + Leftover(prev.turrets[2]) + Leftover(prev.turrets[3]))
        /\ Len(turrets) = 3
        /\ \A i \in 1..3 :
              turrets[i] = IF prev.turrets[i].destroyed THEN prev.turrets[i]
                           ELSE [prev.turrets[i] EXCEPT !.ammo = prev.turrets[i].maxAmmo]
        /\ cities = prev.cities
        /\ round = prev.round + 1
        /\ status = "PLAYING"

C10_Witness ==
    /\ lastOp.op = "nextRound"
    /\ prev.status = "ROUND_END"
    /\ prev.turrets[1].ammo = 3 /\ ~prev.turrets[1].destroyed
    /\ prev.turrets[2].ammo = 7 /\ ~prev.turrets[2].destroyed
    /\ prev.turrets[3].destroyed
    /\ score = prev.score + 50
    /\ turrets[1].ammo = 10 /\ turrets[2].ammo = 20

\* the quota of round n that is linear in n and 3 in round 1
LinearQuota(n) == BASE_ROCKETS + (n - 1)

\* C11: rocketsToSpawn at the start of round n is 3 + (n - 1): 3 after
\* initGame, and after each round transition 1 more than the round before.
C11_QuotaLinear ==
    /\ lastOp.op = "initGame" => rocketsToSpawn = LinearQuota(round)
    /\ lastOp.op = "nextRound" => rocketsToSpawn = LinearQuota(round)

\* p reaches its target in the next update that visits it
Arrives(p) == p.progress + p.speed >= Scale

\* forEach with splice: index j of ps is visited unless index j - 1 was
\* visited and removed
RECURSIVE Visited(_, _)
Visited(ps, j) ==
    IF j = 1 THEN TRUE ELSE ~(Visited(ps, j - 1) /\ Arrives(ps[j - 1]))

\* C12: in an update, a rocket that arrives at the position of a city not
\* destroyed destroys that city, and a city or turret is newly destroyed only
\* where an arriving rocket has its target.
C12_ExactCity ==
    Updated =>
        /\ \A j \in 1..Len(prev.rockets) : \A c \in 1..Len(prev.cities) :
              (/\ Visited(prev.rockets, j)
               /\ Arrives(prev.rockets[j])
               /\ prev.rockets[j].target = prev.cities[c].pos) => cities[c].destroyed
        /\ \A c \in 1..Len(cities) :
              (cities[c].destroyed /\ ~prev.cities[c].destroyed) =>
                  \E j \in 1..Len(prev.rockets) :
                      Arrives(prev.rockets[j]) /\ prev.rockets[j].target = cities[c].pos
        /\ \A t \in 1..Len(turrets) :
              (turrets[t].destroyed /\ ~prev.turrets[t].destroyed) =>
                  \E j \in 1..Len(prev.rockets) :
                      Arrives(prev.rockets[j]) /\ prev.rockets[j].target = turrets[t].pos

C12_Witness ==
    /\ Updated
    /\ ~prev.cities[1].destroyed
    /\ cities[1].destroyed
    /\ \A c \in 2..6 : ~cities[c].destroyed
    /\ \A t \in 1..3 : ~turrets[t].destroyed

\* C13: an update in a status other than PLAYING changes nothing in the
\* world, and WON and LOST are left by initGame only.
C13_UpdateOnlyPlaying ==
    /\ (lastOp.op = "update" /\ prev.status # "PLAYING") => World = prev
    /\ (prev.status \in {"WON", "LOST"} /\ status # prev.status) => lastOp.op = "initGame"

C13_Witness ==
    /\ lastOp.op = "update"
    /\ prev.status = "LOST"
    /\ prev.explosions # <<>>
    /\ prev.rocketsToSpawn > 0
    /\ lastOp.trial
    /\ World = prev

\* C14: initGame, from any state, gives score 0, status PLAYING, round 1,
\* 3 rockets to spawn, no rocket, missile or explosion, the three turrets at
\* x = 50, 400, 750 with ammo = maxAmmo = 10, 20, 10 and six cities, none
\* of them destroyed.
C14_FreshGame ==
    lastOp.op = "initGame" =>
        /\ score = 0 /\ status = "PLAYING" /\ round = 1 /\ rocketsToSpawn = 3
        /\ rockets = <<>> /\ missiles = <<>> /\ explosions = <<>>
        /\ Len(turrets) = 3
        /\ <<turrets[1].pos.x, turrets[2].pos.x, turrets[3].pos.x>> = <<50, 400, 750>>
        /\ <<turrets[1].ammo, turrets[2].ammo, turrets[3].ammo>> = <<10, 20, 10>>
        /\ \A i \in 1..3 : turrets[i].maxAmmo = turrets[i].ammo /\ ~turrets[i].destroyed
        /\ Len(cities) = 6
        /\ \A i \in 1..6 : ~cities[i].destroyed

C14_Witness ==
    /\ lastOp.op = "initGame"
    /\ prev.status = "LOST"
    /\ prev.score > 0
    /\ prev.round > 1
    /\ prev.explosions # <<>>
    /\ AllTurretsDestroyed(prev.turrets)
    /\ status = "PLAYING"
    /\ score = 0

\* q is p after exactly one progress increment
MovedOnce(p, q) ==
    /\ q.start = p.start
    /\ q.target = p.target
    /\ q.speed = p.speed
    /\ q.progress = p.progress + p.speed

\* e is an explosion pushed in the explosion step of this frame, which that
\* step visits at most once
Secondary(e) ==
    /\ e.maxRadius = 20 * Scale
    /\ e.growing
    /\ e.radius \in {0, EXPLOSION_GROWTH_SPEED}

\* C15: in an update in status PLAYING every rocket, missile and explosion
\* live when its step begins gets exactly one progress increment or radius
\* step: what is left of them after the frame has been advanced once.
C15_EachUpdatedOnce ==
    Updated =>
        /\ \A i \in 1..Len(rockets) :
              \/ i = Len(rockets) /\ rocketsToSpawn = prev.rocketsToSpawn - 1
              \/ \E j \in 1..Len(prev.rockets) : MovedOnce(prev.rockets[j], rockets[i])
        /\ \A i \in 1..Len(missiles) :
              \E j \in 1..Len(prev.missiles) : MovedOnce(prev.missiles[j], missiles[i])
        /\ \A i \in 1..Len(explosions) :
              \/ Secondary(explosions[i])
              \/ explosions[i] =
                     StepExplosion(NewExplosion(explosions[i].pos, EXPLOSION_MAX_RADIUS))
              \/ \E j \in 1..Len(prev.explosions) :
                     explosions[i] = StepExplosion(prev.explosions[j])

\* e has had its radius step in this frame
Stepped(e) ==
    \/ e = StepExplosion(NewExplosion(e.pos, EXPLOSION_MAX_RADIUS))
    \/ \E j \in 1..Len(prev.explosions) : e = StepExplosion(prev.explosions[j])

\* the rockets that were live in the explosion step of this frame
Survivors ==
    IF rocketsToSpawn = prev.rocketsToSpawn - 1
    THEN 1..(Len(rockets) - 1)
    ELSE 1..Len(rockets)

\* C16: in the explosion step every rocket nearer to a stepped, unfinished
\* explosion than its radius is removed in that frame, several at once
\* included: no rocket that outlives the step is within the radius of an
\* explosion that was stepped in it.
C16_AllInRangeRemoved ==
    Updated =>
        \A i \in Survivors : \A k \in 1..Len(explosions) :
            Stepped(explosions[k]) =>
                ~DistLess(rockets[i].pos.x - explosions[k].pos.x,
                          rockets[i].pos.y - explosions[k].pos.y,
                          explosions[k].radius)

\* the last rocket of the world is one just spawned on a standing city or turret
FreshRocket ==
    /\ Len(rockets) > 0
    /\ LET r == rockets[Len(rockets)]
       IN  /\ r.progress = 0
           /\ r.start.y = 0
           /\ r.pos = Fix(r.start)
           /\ \/ \E c \in 1..Len(cities) : ~cities[c].destroyed /\ cities[c].pos = r.target
              \/ \E t \in 1..Len(turrets) : ~turrets[t].destroyed /\ turrets[t].pos = r.target

\* C17: rocketsToSpawn is never negative; an update spawns at most one
\* rocket, only if it began with rocketsToSpawn > 0 and ends in PLAYING, and
\* a spawn lowers rocketsToSpawn by 1 and appends one rocket of progress 0
\* that starts at y = 0 and aims at a city or turret standing then; a click
\* or a round transition spawns nothing.
C17_SpawnOnePerFrame ==
    /\ rocketsToSpawn >= 0
    /\ lastOp.op = "update" =>
          \/ /\ rocketsToSpawn = prev.rocketsToSpawn
             /\ Len(rockets) <= Len(prev.rockets)
             /\ \A i \in 1..Len(rockets) : rockets[i].progress > 0
          \/ /\ rocketsToSpawn = prev.rocketsToSpawn - 1
             /\ prev.rocketsToSpawn > 0
             /\ prev.status = "PLAYING"
             /\ status = "PLAYING"
             /\ Len(rockets) <= Len(prev.rockets) + 1
             /\ FreshRocket
             /\ \A i \in 1..(Len(rockets) - 1) : rockets[i].progress > 0
    /\ lastOp.op \in {"click", "nextRound"} => rockets = prev.rockets
    /\ lastOp.op = "click" => rocketsToSpawn = prev.rocketsToSpawn

C17_Witness ==
    /\ Updated
    /\ rocketsToSpawn = prev.rocketsToSpawn - 1
    /\ ~prev.turrets[2].destroyed
    /\ turrets[2].destroyed
    /\ rockets[Len(rockets)].target = turrets[3].pos

\* C18: an update ends in ROUND_END exactly when it ends with a turret
\* standing, score < 1000, rocketsToSpawn = 0 and no rocket and no explosion;
\* ROUND_END is entered by update only, every ROUND_END state has no rocket,
\* no explosion and rocketsToSpawn = 0, and nothing but the round transition
\* or initGame changes a ROUND_END world.
C18_RoundEnd ==
    /\ Updated =>
          (status = "ROUND_END" <=>
              /\ ~AllTurretsDestroyed(turrets)
              /\ score < WIN_SCORE
              /\ rocketsToSpawn = 0
              /\ rockets = <<>>
              /\ explosions = <<>>)
    /\ (status = "ROUND_END" /\ prev.status # "ROUND_END") => Updated
    /\ status = "ROUND_END" =>
          rockets = <<>> /\ explosions = <<>> /\ rocketsToSpawn = 0
    /\ (prev.status = "ROUND_END" /\ lastOp.op \in {"update", "click"}) => World = prev

C18_Witness ==
    /\ Updated
    /\ prev.explosions # <<>>
    /\ status = "ROUND_END"
    /\ \E t \in 1..3 : turrets[t].destroyed

\* C19: 0 <= ammo <= maxAmmo for every turret; an update changes no ammo; a
\* click takes 1 from the turret that fires and nothing from the others; a
\* round transition sets the ammo of the turrets not destroyed to maxAmmo and
\* leaves the others.
C19_AmmoBounds ==
    /\ \A i \in 1..Len(turrets) : 0 <= turrets[i].ammo /\ turrets[i].ammo <= turrets[i].maxAmmo
    /\ lastOp.op = "update" =>
          \A i \in 1..Len(turrets) : turrets[i].ammo = prev.turrets[i].ammo
    /\ lastOp.op = "click" =>
          \/ turrets = prev.turrets /\ missiles = prev.missiles
          \/ /\ Len(missiles) = Len(prev.missiles) + 1
             /\ \A i \in 1..Len(turrets) :
                   turrets[i].ammo =
                       IF i = missiles[Len(missiles)].sourceTurretIndex
                       THEN prev.turrets[i].ammo - 1
                       ELSE prev.turrets[i].ammo
    /\ lastOp.op = "nextRound" =>
          \A i \in 1..Len(turrets) :
              turrets[i].ammo =
                  IF turrets[i].destroyed THEN prev.turrets[i].ammo ELSE turrets[i].maxAmmo

C19_Witness ==
    /\ lastOp.op = "nextRound"
    /\ prev.turrets[1].ammo < prev.turrets[1].maxAmmo
    /\ turrets[1].ammo = turrets[1].maxAmmo
    /\ turrets[3].destroyed
    /\ Len(missiles) > 0

\* C20: in every state of status PLAYING or ROUND_END a turret stands, and a
\* spawn that takes one from rocketsToSpawn always finds a target and adds
\* its rocket.
C20_TargetExists ==
    /\ status \in {"PLAYING", "ROUND_END"} =>
          \E t \in 1..Len(turrets) : ~turrets[t].destroyed
    /\ (lastOp.op = "update" /\ rocketsToSpawn < prev.rocketsToSpawn) =>
          /\ Len(rockets) > 0
          /\ rockets[Len(rockets)].progress = 0

C20_Witness ==
    /\ Updated
    /\ prev.turrets[1].destroyed /\ prev.turrets[2].destroyed
    /\ rocketsToSpawn < prev.rocketsToSpawn
    /\ status = "PLAYING"
    /\ ~turrets[3].destroyed

\* C21: a click in a status other than PLAYING changes nothing, no ammo and
\* no missile, so the turrets that the round transition counts for the bonus
\* are those with which ROUND_END was reached.
C21_ClickOnlyPlaying ==
    /\ (lastOp.op = "click" /\ prev.status # "PLAYING") =>
          /\ turrets = prev.turrets
          /\ missiles = prev.missiles
          /\ World = prev
    /\ (prev.status = "ROUND_END" /\ status = "ROUND_END") => turrets = prev.turrets

C21_Witness ==
    /\ lastOp.op = "click"
    /\ prev.status = "ROUND_END"
    /\ Eligible(prev.turrets) # {}
    /\ Len(prev.missiles) < MaxMissiles
    /\ World = prev

Ended == status \in {"ROUND_END", "WON", "LOST"}

\* C22 as stated: every round terminates and no rocket, missile or explosion
\* stays live forever, i.e. from PLAYING a state is reached in which none is
\* live.
C22_NothingLiveForever ==
    (status = "PLAYING") ~> (rockets = <<>> /\ missiles = <<>> /\ explosions = <<>>)

\* C22: with update called frame after frame and the spawn trial succeeding
\* again and again while rockets are left to spawn, every PLAYING state leads
\* to ROUND_END, WON or LOST, whatever clicks come in between.
C22_RoundTerminates == (status = "PLAYING") ~> Ended

C22_Witness ==
    /\ status = "ROUND_END"
    /\ round = 6
    /\ rocketsToSpawn = 0
    /\ turrets[3].ammo = 0
    /\ cities[5].destroyed
    /\ ~turrets[3].destroyed

=============================================================================
